---- MODULE Spec2Model ----
(***************************************************************************)
(* redisX: the RESP3 decoder (Resp3Parser), the encoder (Resp3Writer) and  *)
(* the session (ConnectionManager) that correlates replies with commands,  *)
(* RedisClient.send on top of it, and the byte transport (TcpTransport).   *)
(*                                                                         *)
(* Bytes are one-character strings; a buffer is a sequence of bytes.       *)
(* Offsets are 0-based as in the source; At/Slice convert to 1-based.      *)
(* The byte alphabet of the model holds no '=', ',', '(' prefix: verbatim  *)
(* strings, doubles and big numbers are outside the modelled streams.      *)
(***************************************************************************)
EXTENDS Integers, Sequences, FiniteSets, TLC

VARIABLES
    parser,            \* Resp3Parser fields: buffer, offset, frames, pending attributes
    input,             \* decoder harness: bytes of the stream not fed yet
    whole,             \* decoder harness: the stream under test
    srcv,              \* decoder harness: <<V>> when the stream is encode(V), else <<>>
    label,             \* decoder harness: the shape of the stream under test
    nfeeds,            \* decoder harness: number of feed() calls made
    replies,           \* decoder harness: values handed to onReply
    pushes,            \* decoder harness: values handed to onPush
    errors,            \* decoder harness: number of onError calls
    state,             \* ConnectionManager._state
    handshakeComplete, \* ConnectionManager._isHandshakeComplete
    cur,               \* ConnectionManager._transport: index of the transport, 0 = null
    parserLive,        \* ConnectionManager._parser # null
    writerLive,        \* ConnectionManager._writer # null
    hook,              \* connect() call whose handshake hook replaces opts.onReply, 0 = none
    pending,           \* ConnectionManager._pendingCommands, ids in insertion order
    timers,            \* ids whose command timeout timer is armed
    nextId,            \* ConnectionManager._commandIdCounter
    outcome,           \* per command id: how its promise stands, and the reply it got
    sentOn,            \* per command id: the transport that took its write, 0 = write refused
    callpc,            \* per connect() call: where its continuation stands
    tstate,            \* per transport: TcpTransport._state
    wire,              \* per transport: frames the server sent, in flight towards the client
    discPending,       \* a disconnect() call awaits transport.close(): index of that transport, 0 = none
    pushCount,         \* number of 'push' events emitted by the session
    pushesWhilePending, \* number of those emitted while a request was pending
    parseErrors,       \* number of ParseError 'error' events emitted by the session
    upgraded,          \* transports whose HELLO 3 was answered by +OK
    refused,           \* number of sendCommand calls that threw ConnectionRequiredError
    client,            \* RedisClient.send with autoConnect: its position and the connect() call it awaits
    net,               \* one TcpTransport on its own: its fields, its socket, its callers
    cmd,               \* one RedisClient.send call through the command registry: input and outcome
    opts,              \* one RedisClient construction: the options passed and the outcome
    clock              \* one connect() call against time: its position, the time since the call, its timers

decVars == <<input, whole, srcv, label, nfeeds, replies, pushes, errors>>
sessVars == <<state, handshakeComplete, cur, parserLive, writerLive, hook, pending,
              timers, nextId, outcome, sentOn, callpc, tstate, wire, discPending,
              pushCount, pushesWhilePending, parseErrors, upgraded, refused, client>>
apiVars == <<cmd, opts, clock>>
vars == <<parser, decVars, sessVars, net, apiVars>>

----------------------------------------------------------------------------
(* Bytes *)

CRLF == <<"\r", "\n">>

Digits == <<"0", "1", "2", "3", "4", "5", "6", "7", "8", "9">>

IsDigit(b) == \E i \in 1..10 : Digits[i] = b

DigitVal(b) == (CHOOSE i \in 1..10 : Digits[i] = b) - 1

\* buffer[k], 0-based; "undef" models JS undefined for an index out of range
At(buf, k) == IF k >= 0 /\ k < Len(buf) THEN buf[k + 1] ELSE "undef"

\* buffer.subarray(a, b) / buffer.toString('utf8', a, b), 0-based, end exclusive
Slice(buf, a, b) ==
    LET lo == IF a < 0 THEN 0 ELSE a
        hi == IF b > Len(buf) THEN Len(buf) ELSE b
    IN IF hi > lo THEN SubSeq(buf, lo + 1, hi) ELSE <<>>

\* buffer.indexOf('\r\n', from)
IndexOfCRLF(buf, from) ==
    LET lo == IF from < 0 THEN 0 ELSE from
        S == {i \in lo..(Len(buf) - 2) : buf[i + 1] = "\r" /\ buf[i + 2] = "\n"}
    IN IF S = {} THEN -1 ELSE CHOOSE i \in S : \A j \in S : i <= j

\* string.indexOf(ch)
IndexOf(s, ch) ==
    LET S == {i \in 0..(Len(s) - 1) : s[i + 1] = ch}
    IN IF S = {} THEN -1 ELSE CHOOSE i \in S : \A j \in S : i <= j

RECURSIVE DigitsToNat(_)
DigitsToNat(s) ==
    IF s = <<>> THEN 0
    ELSE 10 * DigitsToNat(SubSeq(s, 1, Len(s) - 1)) + DigitVal(s[Len(s)])

RECURSIVE NatToDigits(_)
NatToDigits(n) ==
    IF n < 10 THEN <<Digits[n + 1]>>
    ELSE NatToDigits(n \div 10) \o <<Digits[(n % 10) + 1]>>

\* Number.prototype.toString / BigInt.prototype.toString for an integer
IntToString(n) == IF n < 0 THEN <<"-">> \o NatToDigits(0 - n) ELSE NatToDigits(n)

\* the longest prefix of s made of digits
RECURSIVE DigitPrefix(_)
DigitPrefix(s) ==
    IF s = <<>> \/ ~IsDigit(s[1]) THEN <<>>
    ELSE <<s[1]>> \o DigitPrefix(Tail(s))

\* Number.parseInt(s, 10): optional sign, leading digits, the rest ignored
ParseInt(s) ==
    LET neg == s # <<>> /\ s[1] = "-"
        body == IF s # <<>> /\ s[1] \in {"-", "+"} THEN Tail(s) ELSE s
        ds == DigitPrefix(body)
    IN IF ds = <<>> THEN [nan |-> TRUE, n |-> 0]
       ELSE [nan |-> FALSE, n |-> IF neg THEN 0 - DigitsToNat(ds) ELSE DigitsToNat(ds)]

\* BigInt(line): the empty string is 0n, a signed run of digits its value,
\* anything else a SyntaxError
BigIntOf(s) ==
    LET neg == s # <<>> /\ s[1] = "-"
        body == IF s # <<>> /\ s[1] \in {"-", "+"} THEN Tail(s) ELSE s
    IN IF s = <<>> THEN [ok |-> TRUE, n |-> 0]
       ELSE IF body # <<>> /\ DigitPrefix(body) = body
            THEN [ok |-> TRUE, n |-> IF neg THEN 0 - DigitsToNat(body) ELSE DigitsToNat(body)]
            ELSE [ok |-> FALSE, n |-> 0]

----------------------------------------------------------------------------
(* RESP3 values.  Every value is a record of one shape; the fields a type  *)
(* does not use keep their defaults.  A JS Map or Set whose keys are       *)
(* freshly parsed objects keeps every entry in insertion order, so maps,   *)
(* sets and attributes are the flat item sequences k1, v1, k2, v2, ...     *)

Node(t) ==
    [type |-> t, isNull |-> FALSE, text |-> <<>>, num |-> 0,
     hasCode |-> FALSE, code |-> <<>>, items |-> <<>>,
     hasAttrs |-> FALSE, attrs |-> <<>>]

SimpleString(s) == [Node("simple_string") EXCEPT !.text = s]
IntegerNode(n) == [Node("integer") EXCEPT !.num = n]
BooleanNode(b) == [Node("boolean") EXCEPT !.text = b]
NullNode == Node("null")
BlobString(s) == [Node("blob_string") EXCEPT !.text = s]
NullBlob == [Node("blob_string") EXCEPT !.isNull = TRUE]
ErrorNode(c, m) ==
    [Node("error") EXCEPT !.hasCode = (c # <<>>), !.code = c, !.text = m]
ArrayNode(xs) == [Node("array") EXCEPT !.items = xs]
MapNode(xs) == [Node("map") EXCEPT !.items = xs]
SetNode(xs) == [Node("set") EXCEPT !.items = xs]
PushNode(xs) == [Node("push") EXCEPT !.items = xs]
WithAttrs(v, as) == [v EXCEPT !.hasAttrs = TRUE, !.attrs = as]

FreshParser ==
    [buffer |-> <<>>, offset |-> 0, frames |-> <<>>, hasPA |-> FALSE, pa |-> <<>>]

\* the result of a parse function: a node, NEED_MORE, undefined or a thrown error
Res(tag, node, p) == [tag |-> tag, node |-> node, p |-> p]
NeedMore(p) == Res("need", NullNode, p)
Thrown(p) == Res("throw", NullNode, p)

----------------------------------------------------------------------------
(* Resp3Parser *)

\* attachAttrs: the pending attributes, if any, go to this node and are cleared
AttachAttrs(node, p) ==
    IF p.hasPA
    THEN Res("node", WithAttrs(node, p.pa), [p EXCEPT !.hasPA = FALSE, !.pa = <<>>])
    ELSE Res("node", node, p)

\* attachExplicitAttrs: the attributes captured in the frame go to the node
AttachExplicitAttrs(node, hasAttrs, attrs) ==
    IF hasAttrs THEN WithAttrs(node, attrs) ELSE node

\* readLine: the text between the prefix byte and the next CRLF
ReadLine(p) ==
    LET i == IndexOfCRLF(p.buffer, p.offset)
    IN IF i = -1 THEN [need |-> TRUE, line |-> <<>>, p |-> p]
       ELSE [need |-> FALSE, line |-> Slice(p.buffer, p.offset + 1, i),
             p |-> [p EXCEPT !.offset = i + 2]]

\* readLenAfterPrefix: the decimal length of a blob or an aggregate
ReadLenAfterPrefix(p) ==
    LET i == IndexOfCRLF(p.buffer, p.offset + 1)
        n == ParseInt(Slice(p.buffer, p.offset + 1, i))
        q == [p EXCEPT !.offset = i + 2]
    IN IF i = -1 THEN [tag |-> "need", n |-> 0, p |-> p]
       ELSE IF n.nan THEN [tag |-> "throw", n |-> 0, p |-> q]
       ELSE [tag |-> "ok", n |-> n.n, p |-> q]

\* ensure(n)
Ensure(p, n) == Len(p.buffer) - p.offset >= n

ParseSimpleString(p) ==
    LET r == ReadLine(p)
    IN IF r.need THEN NeedMore(p) ELSE AttachAttrs(SimpleString(r.line), r.p)

\* parseError and the blob error share the split of "<code> <message>"
SplitError(t, line) ==
    LET sp == IndexOf(line, " ")
    IN IF sp > 0
       THEN [Node(t) EXCEPT !.hasCode = TRUE, !.code = Slice(line, 0, sp),
                            !.text = Slice(line, sp + 1, Len(line))]
       ELSE [Node(t) EXCEPT !.text = line]

ParseError(p) ==
    LET r == ReadLine(p)
    IN IF r.need THEN NeedMore(p) ELSE AttachAttrs(SplitError("error", r.line), r.p)

ParseInteger(p) ==
    LET r == ReadLine(p)
        v == BigIntOf(r.line)
    IN IF r.need THEN NeedMore(p)
       ELSE IF v.ok THEN AttachAttrs(IntegerNode(v.n), r.p)
       ELSE Thrown(r.p)

ParseBlobStringLike(kind, p) ==
    LET isBlobErr == kind = "!"
        Payload(q, n) ==
            LET payload == Slice(q.buffer, q.offset, q.offset + n)
                q1 == [q EXCEPT !.offset = @ + n]
                q2 == [q EXCEPT !.offset = @ + n + 2]
            IN IF ~Ensure(q, n + 2) THEN NeedMore(q)
               ELSE IF ~Ensure(q1, 2) THEN NeedMore(q1)
               ELSE IF At(q.buffer, q.offset + n) # "\r"
                       \/ At(q.buffer, q.offset + n + 1) # "\n"
                    THEN Thrown(q1)
               ELSE IF isBlobErr THEN AttachAttrs(SplitError("blob_error", payload), q2)
               ELSE AttachAttrs(BlobString(payload), q2)
        Header(l) ==
            IF l.tag = "need" THEN NeedMore(p)
            ELSE IF l.tag = "throw" THEN Thrown(l.p)
            ELSE IF l.n = -1
                 THEN IF isBlobErr THEN AttachAttrs(Node("blob_error"), l.p)
                      ELSE AttachAttrs(NullBlob, l.p)
            ELSE Payload(l.p, l.n)
    IN Header(ReadLenAfterPrefix(p))

ParseNull(p) ==
    LET r == ReadLine(p)
    IN IF r.need THEN NeedMore(p)
       ELSE IF r.line # <<>> THEN Thrown(r.p)
       ELSE AttachAttrs(NullNode, r.p)

ParseBoolean(p) ==
    LET r == ReadLine(p)
    IN IF r.need THEN NeedMore(p)
       ELSE IF r.line # <<"t">> /\ r.line # <<"f">> THEN Thrown(r.p)
       ELSE AttachAttrs(BooleanNode(r.line), r.p)

\* aggregateNull: the value of an aggregate of length -1
AggregateNull(kind) ==
    CASE kind = "array" -> [Node("array") EXCEPT !.isNull = TRUE]
      [] kind = "map" -> [Node("map") EXCEPT !.isNull = TRUE]
      [] kind = "set" -> [Node("set") EXCEPT !.isNull = TRUE]
      [] kind = "push" -> PushNode(<<>>)
      [] kind = "attributes" -> NullNode

Frame(kind, remaining, hasAttrs, attrs) ==
    [kind |-> kind, remaining |-> remaining, items |-> <<>>,
     hasAttrs |-> hasAttrs, attrs |-> attrs]

\* finalizeFrameInstant: the value of a completed frame; an attributes frame
\* is stored as the pending attributes and yields a placeholder null
FinalizeFrameInstant(frame, p) ==
    CASE frame.kind = "array" -> Res("node", ArrayNode(frame.items), p)
      [] frame.kind = "set" -> Res("node", SetNode(frame.items), p)
      [] frame.kind = "map" -> Res("node", MapNode(frame.items), p)
      [] frame.kind = "push" -> Res("node", PushNode(frame.items), p)
      [] frame.kind = "attributes" ->
            Res("node", NullNode, [p EXCEPT !.hasPA = TRUE, !.pa = frame.items])

KindOfPrefix(b) ==
    CASE b = "*" -> "array"
      [] b = "%" -> "map"
      [] b = "~" -> "set"
      [] b = ">" -> "push"
      [] b = "|" -> "attributes"

RECURSIVE ParseOne(_), ParseAggregate(_, _), ConsumeNested(_)

\* consumeNested: parse children into the top frame until a top-level value
\* completes or the bytes run out
ConsumeNested(p) ==
    IF Len(p.frames) = 0 THEN Res("undef", NullNode, p)
    ELSE
      LET start == p.offset
          \* the top frame is complete: pop it and hand its value on
          Pop(top, fin, n1) ==
              LET p2 == [fin.p EXCEPT !.frames = SubSeq(@, 1, n1 - 1)]
                  withAttrs == AttachExplicitAttrs(fin.node, top.hasAttrs, top.attrs)
              IN IF n1 = 1 THEN Res("node", withAttrs, p2)
                 ELSE ConsumeNested([p2 EXCEPT
                          !.frames[n1 - 1].items = Append(@, withAttrs),
                          !.frames[n1 - 1].remaining = @ - 1])
          \* the child c goes into the top frame
          Push(c, n1) ==
              LET top == [c.p.frames[n1] EXCEPT !.items = Append(@, c.node),
                                                !.remaining = @ - 1]
              IN IF top.remaining > 0
                 THEN ConsumeNested([c.p EXCEPT !.frames[n1] = top])
                 ELSE Pop(top, FinalizeFrameInstant(top, c.p), n1)
          Child(c) ==
              IF c.tag = "throw" THEN c
              ELSE IF c.tag \in {"need", "undef"}
                   THEN NeedMore([c.p EXCEPT !.offset = start])
              ELSE IF Len(c.p.frames) = 0 THEN Thrown(c.p)   \* top is undefined: TypeError
              ELSE Push(c, Len(c.p.frames))
      IN Child(ParseOne(p))

\* parseAggregate: header, then the children through consumeNested
ParseAggregate(kind, p) ==
    LET Empty(fin) == AttachAttrs(fin.node, fin.p)
        Header(l) ==
            LET remaining == IF kind \in {"map", "attributes"} THEN l.n * 2 ELSE l.n
                \* stealPendingAttributes
                frame == Frame(kind, remaining, l.p.hasPA, l.p.pa)
                q1 == [l.p EXCEPT !.hasPA = FALSE, !.pa = <<>>]
            IN IF l.tag = "need" THEN NeedMore(p)
               ELSE IF l.tag = "throw" THEN Thrown(l.p)
               ELSE IF l.n = -1 THEN AttachAttrs(AggregateNull(kind), l.p)
               ELSE IF remaining = 0 THEN Empty(FinalizeFrameInstant(frame, q1))
               ELSE ConsumeNested([q1 EXCEPT !.frames = Append(@, frame)])
    IN Header(ReadLenAfterPrefix(p))

\* parseOne: dispatch on the prefix byte
ParseOne(p) ==
    LET prefix == At(p.buffer, p.offset)
    IN IF p.offset >= Len(p.buffer) THEN Res("undef", NullNode, p)
       ELSE CASE prefix = "+" -> ParseSimpleString(p)
              [] prefix = "-" -> ParseError(p)
              [] prefix = ":" -> ParseInteger(p)
              [] prefix = "$" -> ParseBlobStringLike("$", p)
              [] prefix = "!" -> ParseBlobStringLike("!", p)
              [] prefix \in {"*", "%", "~", ">", "|"} -> ParseAggregate(KindOfPrefix(prefix), p)
              [] prefix = "_" -> ParseNull(p)
              [] prefix = "#" -> ParseBoolean(p)
              [] OTHER -> Thrown(p)

\* handleValue hands a push to onReply
HandleValueNoPush(node, p, hasOnPush) ==
    IF node.type = "null" /\ ~node.hasAttrs /\ Len(p.frames) > 0 THEN "drop"
    ELSE "reply"

\* handleValue: where a parsed node goes
HandleValue(node, p, hasOnPush) ==
    IF node.type = "null" /\ ~node.hasAttrs /\ Len(p.frames) > 0 THEN "drop"
    ELSE IF node.type = "push" /\ hasOnPush THEN "push"
    ELSE "reply"

\* reset
Reset == FreshParser

\* feed, first half: join the chunk to the unread rest of the buffer
FeedBuffer(p, chunk) ==
    IF p.offset = 0 /\ Len(p.buffer) = 0 THEN [p EXCEPT !.buffer = chunk]
    ELSE [p EXCEPT !.buffer = Slice(p.buffer, p.offset, Len(p.buffer)) \o chunk,
                   !.offset = 0]

\* feed, one turn of the parse loop: NEED_MORE rolls the offset back to the
\* start of the value
ParseStep(p) ==
    LET Roll(r) == IF r.tag = "need" THEN NeedMore([r.p EXCEPT !.offset = p.offset])
                   ELSE r
    IN Roll(ParseOne(p))

\* the error is reported and the decoder state left as it was at the throw
CatchKeepState(st, p) == [st EXCEPT !.p = p, !.errors = @ + 1]

\* feed, the catch block, entered with the decoder state p at the throw:
\* reportError, then reset
CatchDecodeError(st, p) == [st EXCEPT !.p = Reset, !.errors = @ + 1]

\* feed with the sinks of the test harness: onReply, onPush and onError collect
RECURSIVE FeedLoopSink(_)
FeedLoopSink(st) ==
    LET Sink(r, to) ==
            CASE r.tag = "throw" -> CatchDecodeError(st, r.p)
              [] r.tag \in {"need", "undef"} -> [st EXCEPT !.p = r.p]
              [] r.tag = "node" ->
                   FeedLoopSink([st EXCEPT !.p = r.p,
                       !.replies = IF to = "reply" THEN Append(@, r.node) ELSE @,
                       !.pushes = IF to = "push" THEN Append(@, r.node) ELSE @])
        Turn(r) == Sink(r, HandleValue(r.node, r.p, TRUE))
    IN Turn(ParseStep(st.p))

FeedSink(st, chunk) ==
    IF chunk = <<>> THEN st
    ELSE FeedLoopSink([st EXCEPT !.p = FeedBuffer(st.p, chunk)])

\* a fresh decoder fed the whole stream in one piece
OneShot(bytes) ==
    FeedSink([p |-> FreshParser, replies |-> <<>>, pushes |-> <<>>, errors |-> 0], bytes)

----------------------------------------------------------------------------
(* Resp3Writer *)

RECURSIVE WriteValue(_), WriteValues(_)

\* the children of an aggregate, each through writeValue (convertToResp3
\* leaves a Resp3 object as it is)
WriteValues(xs) ==
    IF xs = <<>> THEN <<>> ELSE WriteValue(xs[1]) \o WriteValues(Tail(xs))

\* Map.size of a flat item sequence
PairCount(xs) == (Len(xs) + 1) \div 2

\* writeAttributes
WriteAttributes(as) ==
    <<"|">> \o IntToString(PairCount(as)) \o CRLF \o WriteValues(as)

\* the "<code> <message>" content of an error
ErrorContent(v) == IF v.hasCode /\ v.code # <<>> THEN v.code \o <<" ">> \o v.text ELSE v.text

\* writeValue: the attributes, when there are any, then the value by its type
WriteValue(v) ==
    (IF v.hasAttrs /\ PairCount(v.attrs) > 0 THEN WriteAttributes(v.attrs) ELSE <<>>) \o
    CASE v.type = "simple_string" -> <<"+">> \o v.text \o CRLF
      [] v.type = "error" -> <<"-">> \o ErrorContent(v) \o CRLF
      [] v.type = "integer" -> <<":">> \o IntToString(v.num) \o CRLF
      [] v.type = "boolean" -> <<"#">> \o (IF v.text = <<"t">> THEN <<"t">> ELSE <<"f">>) \o CRLF
      [] v.type = "null" -> <<"_">> \o CRLF
      [] v.type = "blob_string" ->
            IF v.isNull THEN <<"$", "-", "1">> \o CRLF
            ELSE <<"$">> \o IntToString(Len(v.text)) \o CRLF \o v.text \o CRLF
      [] v.type = "blob_error" ->
            <<"!">> \o IntToString(Len(ErrorContent(v))) \o CRLF \o ErrorContent(v) \o CRLF
      [] v.type = "array" ->
            IF v.isNull THEN <<"*", "-", "1">> \o CRLF
            ELSE <<"*">> \o IntToString(Len(v.items)) \o CRLF \o WriteValues(v.items)
      [] v.type = "map" ->
            IF v.isNull THEN <<"%", "-", "1">> \o CRLF
            ELSE <<"%">> \o IntToString(PairCount(v.items)) \o CRLF \o WriteValues(v.items)
      [] v.type = "set" ->
            IF v.isNull THEN <<"~", "-", "1">> \o CRLF
            ELSE <<"~">> \o IntToString(Len(v.items)) \o CRLF \o WriteValues(v.items)
      [] v.type = "push" ->
            <<">">> \o IntToString(Len(v.items)) \o CRLF \o WriteValues(v.items)

\* encode: reset the buffer, write the value, return the bytes written
Encode(v) == WriteValue(v)

----------------------------------------------------------------------------
(* The decoder under test: a stream is fed to a fresh decoder in chunks.   *)

SS(s) == <<"+">> \o s \o CRLF

\* |1 {k: v} in front of a value
AttrKV == <<"|", "1">> \o CRLF \o SS(<<"k">>) \o SS(<<"v">>)

\* byte streams as the server may send them
RawCases == <<
    [label |-> "scalar", bytes |-> SS(<<"O", "K">>)],
    [label |-> "scalars", bytes |-> SS(<<"a">>) \o <<":", "4", "2">> \o CRLF],
    [label |-> "blob", bytes |-> <<"$", "2">> \o CRLF \o <<"h", "i">> \o CRLF],
    [label |-> "array", bytes |-> <<"*", "1">> \o CRLF \o SS(<<"a">>)],
    [label |-> "push", bytes |-> <<">", "1">> \o CRLF \o SS(<<"m">>) \o SS(<<"b">>)],
    [label |-> "attrX", bytes |-> AttrKV \o SS(<<"O", "K">>)],
    [label |-> "attrXY", bytes |-> AttrKV \o SS(<<"X">>) \o SS(<<"Y">>)],
    [label |-> "nested2",
     bytes |-> <<"*", "2">> \o CRLF \o <<"*", "1">> \o CRLF \o SS(<<"a">>) \o
               <<"%", "1">> \o CRLF \o SS(<<"k">>) \o <<":", "1">> \o CRLF],
    [label |-> "nested3",
     bytes |-> <<"*", "1">> \o CRLF \o <<"*", "1">> \o CRLF \o <<"*", "1">> \o CRLF \o
               SS(<<"a">>)],
    [label |-> "attrChild",
     bytes |-> <<"*", "2">> \o CRLF \o AttrKV \o SS(<<"a">>) \o SS(<<"b">>)],
    [label |-> "attrEmpty", bytes |-> <<"|", "0">> \o CRLF \o SS(<<"O", "K">>)],
    [label |-> "bad", bytes |-> <<"?">> \o CRLF \o SS(<<"a">>)],
    [label |-> "badAttr", bytes |-> AttrKV \o <<"?">> \o CRLF \o SS(<<"a">>)],
    [label |-> "badArray",
     bytes |-> <<"*", "2">> \o CRLF \o SS(<<"e">>) \o <<"?">> \o CRLF \o SS(<<"a">>)]
>>

\* values the decoder emits, to be encoded and decoded again
Values == <<
    SimpleString(<<"O", "K">>),
    IntegerNode(7),
    NullBlob,
    BlobString(<<>>),
    ErrorNode(<<"E">>, <<"x">>),
    ArrayNode(<<SimpleString(<<"a">>), NullBlob>>),
    MapNode(<<SimpleString(<<"k">>), IntegerNode(1)>>),
    WithAttrs(SimpleString(<<"O", "K">>), <<SimpleString(<<"k">>), SimpleString(<<"v">>)>>)
>>

Cases ==
    [i \in 1..Len(RawCases) |-> [label |-> RawCases[i].label, bytes |-> RawCases[i].bytes,
                                 src |-> <<>>]] \o
    [i \in 1..Len(Values) |-> [label |-> "encoded", bytes |-> Encode(Values[i]),
                               src |-> <<Values[i]>>]]

\* a TcpTransport after construction, with no socket and no caller yet
TransportInit ==
    [state |-> "disconnected", inflight |-> FALSE, sockOpen |-> FALSE,
     queue |-> <<>>, stream |-> <<>>, needDrain |-> FALSE,
     writeRes |-> <<>>, attempts |-> <<>>, callers |-> <<>>,
     wbuf |-> <<>>, sent |-> <<>>]

SessInit ==
    /\ net = TransportInit
    /\ state = "disconnected"
    /\ handshakeComplete = FALSE
    /\ cur = 0
    /\ parserLive = FALSE
    /\ writerLive = FALSE
    /\ hook = 0
    /\ pending = <<>>
    /\ timers = {}
    /\ nextId = 0
    /\ outcome = <<>>
    /\ sentOn = <<>>
    /\ callpc = <<>>
    /\ tstate = <<>>
    /\ wire = <<>>
    /\ discPending = 0
    /\ pushCount = 0
    /\ pushesWhilePending = 0
    /\ parseErrors = 0
    /\ upgraded = {}
    /\ refused = 0
    /\ client = [pc |-> "idle", call |-> 0]

\* no send call and no construction under test
ApiIdle ==
    /\ cmd = [verb |-> <<>>, args |-> <<>>, ready |-> FALSE, out |-> <<>>]
    /\ opts = [given |-> <<>>, out |-> <<>>]
    /\ clock = [pc |-> "idle", limit |-> 0, now |-> 0, tcpTimer |-> <<>>, hsTimer |-> <<>>]

DecIdle ==
    /\ input = <<>>
    /\ whole = <<>>
    /\ srcv = <<>>
    /\ label = "none"
    /\ nfeeds = 0
    /\ replies = <<>>
    /\ pushes = <<>>
    /\ errors = 0

InitDecoder ==
    /\ SessInit
    /\ ApiIdle
    /\ parser = FreshParser
    /\ \E i \in 1..Len(Cases) :
          /\ input = Cases[i].bytes
          /\ whole = Cases[i].bytes
          /\ srcv = Cases[i].src
          /\ label = Cases[i].label
    /\ nfeeds = 0
    /\ replies = <<>>
    /\ pushes = <<>>
    /\ errors = 0

\* parser.feed(chunk) with the next n bytes of the stream
FeedChunk ==
    \E n \in 1..Len(input) :
       \E st \in {FeedSink([p |-> parser, replies |-> replies, pushes |-> pushes,
                            errors |-> errors], SubSeq(input, 1, n))} :
          /\ parser' = st.p
          /\ replies' = st.replies
          /\ pushes' = st.pushes
          /\ errors' = st.errors
          /\ input' = SubSeq(input, n + 1, Len(input))
          /\ nfeeds' = nfeeds + 1
          /\ UNCHANGED <<whole, srcv, label, sessVars, net, apiVars>>

NextDecoder == FeedChunk

SpecDecoder == InitDecoder /\ [][NextDecoder]_vars

\* everything the decoder handed to a sink, replies first
Emitted == replies \o pushes

\* C7: chunk-boundary independence: a stream that decodes without error in
\* one piece yields the same replies and pushes however it is split
C7_ChunkIndependence ==
    input = <<>> =>
        \A o \in {OneShot(whole)} :
            o.errors = 0 => /\ replies = o.replies
                            /\ pushes = o.pushes
                            /\ errors = 0

\* C8: a top-level attributes map followed by a value X is delivered as
\* exactly one reply, X; the attributes map is no reply of its own
C8_AttributesNotStandalone ==
    (label = "attrX" /\ input = <<>>) =>
        /\ Len(replies) = 1
        /\ replies[1].type = "simple_string"
        /\ replies[1].text = <<"O", "K">>

\* C9: round trip: encode(V) fed in one piece to a fresh decoder emits
\* exactly one value, equal to V with its attributes
C9_RoundTrip ==
    (srcv # <<>> /\ input = <<>> /\ nfeeds = 1) =>
        /\ Emitted = srcv
        /\ errors = 0

----------------------------------------------------------------------------
(* The session: ConnectionManager over TcpTransport, one server per        *)
(* transport.  Every connect() call creates one transport, so calls and    *)
(* transports share their index.  The session has an 'error' listener, as  *)
(* RedisClient installs one.  The socket takes every write at once, and    *)
(* the server answers every request it receives; its answer travels on     *)
(* the wire until a 'data' event delivers it.                              *)

MaxConnects == 2    \* connect() calls that get past the re-entry guard
MaxCommands == 2    \* commands that get past the guard of sendCommand
MaxPushes == 1      \* push frames the servers send
MaxGarbage == 1     \* malformed frames the servers send
MaxRefused == 1     \* sendCommand calls that fail their guard
MaxLoad == 3        \* connect() calls, commands, refused calls, push and malformed frames together

Calls == 1..Len(callpc)
Ids == 1..Len(outcome)

\* frames a server sends
ReplyFrame(k) == SS(IntToString(k))
\* an error reply names the request it answers: -E <k>
ErrFrame(k) == <<"-", "E", " ">> \o IntToString(k) \o CRLF
HelloOK == SS(<<"O", "K">>)
PushFrame == <<">", "1">> \o CRLF \o SS(<<"m">>)
Garbage == <<"?">> \o CRLF

IsPushFrame(f) == f[1] = ">"

RECURSIVE Flatten(_)
Flatten(fs) == IF fs = <<>> THEN <<>> ELSE fs[1] \o Flatten(Tail(fs))

RECURSIVE StripPushes(_)
StripPushes(fs) ==
    IF fs = <<>> THEN <<>>
    ELSE IF IsPushFrame(fs[1]) THEN StripPushes(Tail(fs))
    ELSE <<fs[1]>> \o StripPushes(Tail(fs))

RECURSIVE CountFrames(_, _)
CountFrames(ws, f) ==
    IF ws = <<>> THEN 0
    ELSE Cardinality({k \in 1..Len(ws[1]) : ws[1][k] = f}) + CountFrames(Tail(ws), f)

\* Map.delete(id) on the insertion-ordered map of pending commands
RECURSIVE Without(_, _)
Without(q, id) ==
    IF q = <<>> THEN <<>>
    ELSE IF q[1] = id THEN Without(Tail(q), id)
    ELSE <<q[1]>> \o Without(Tail(q), id)

PushesSent == pushCount + CountFrames(wire, PushFrame)
GarbageSent == parseErrors + CountFrames(wire, Garbage)

\* what the run has spent of its bounds
\* a send that awaits its connect() will still issue one command
ClientReserve == IF client.pc = "awaiting" THEN 1 ELSE 0
Load == Len(callpc) + nextId + ClientReserve + refused + PushesSent + GarbageSent

InPending(q, id) == \E n \in 1..Len(q) : q[n] = id

\* isConnected
\* readiness judged by the state field alone
IsConnectedStateOnly == state = "connected"
IsConnected == state = "connected" /\ handshakeComplete

\* _transformResponse: a RESP error or blob error throws an error carrying
\* its message, a simple string yields its text
TransformResponse(node) ==
    [throws |-> node.type \in {"error", "blob_error"},
     value |-> IF node.type = "integer" THEN IntToString(node.num) ELSE node.text]

\* _handleReply picks the last entry of the map
PendingHeadLast(q) == q[Len(q)]

\* _handleReply: the next pending command is the first entry of the map
PendingHead(q) == q[1]

\* _handleReply settling the head without clearing its timer
HandleReplyKeepsTimer(s, node) ==
    LET id == PendingHead(s.pending)
        t == TransformResponse(node)
    IN [s EXCEPT !.pending = Without(@, id),
                 !.outcome[id] = IF t.throws THEN [st |-> "error", got |-> t.value]
                                 ELSE [st |-> "value", got |-> t.value]]
\* _handleReply with a command pending: settle the head, which clears its
\* timer and deletes it from the map
HandleReply(s, node) ==
    LET id == PendingHead(s.pending)
        t == TransformResponse(node)
    IN [s EXCEPT !.pending = Without(@, id),
                 !.timers = @ \ {id},
                 !.outcome[id] = IF t.throws THEN [st |-> "error", got |-> t.value]
                                 ELSE [st |-> "value", got |-> t.value]]

\* the reply hook of _performHandshake: only the simple string OK resolves
HandshakeAccepts(node) == node.type = "simple_string" /\ node.text = <<"O", "K">>

\* feed with the callbacks of the session: _handleReply or the handshake
\* hook, _handlePush, _handleParseError; a callback that throws is caught by
\* feed like a decode error
RECURSIVE FeedLoopSession(_)
FeedLoopSession(s) ==
    LET Sink(r, to, s1) ==
            CASE r.tag = "throw" -> [s EXCEPT !.p = Reset, !.parseErrors = @ + 1]
              [] r.tag \in {"need", "undef"} -> s1
              [] r.tag = "node" /\ to = "drop" -> FeedLoopSession(s1)
              [] r.tag = "node" /\ to = "push" ->
                   FeedLoopSession([s1 EXCEPT !.pushCount = @ + 1,
                       !.pushesWhilePending = IF s.pending # <<>> THEN @ + 1 ELSE @])
              [] r.tag = "node" /\ to = "reply" ->
                   IF s.hook # 0
                   THEN FeedLoopSession([s1 EXCEPT !.hook = 0, !.hsCall = s.hook,
                            !.hs = IF HandshakeAccepts(r.node) THEN "ok" ELSE "fail"])
                   ELSE IF s.pending = <<>>
                   THEN [s EXCEPT !.p = Reset, !.parseErrors = @ + 1]
                   ELSE FeedLoopSession(HandleReply(s1, r.node))
        Turn(r) == Sink(r, HandleValue(r.node, r.p, TRUE), [s EXCEPT !.p = r.p])
    IN Turn(ParseStep(s.p))

SessionRecord ==
    [p |-> parser, hook |-> hook, pending |-> pending, timers |-> timers,
     outcome |-> outcome, pushCount |-> pushCount,
     pushesWhilePending |-> pushesWhilePending, parseErrors |-> parseErrors,
     hs |-> "none", hsCall |-> 0]

\* the 'data' handler: parser.feed(chunk) when there is a parser
FeedSession(chunk) ==
    IF ~parserLive \/ chunk = <<>> THEN SessionRecord
    ELSE FeedLoopSession([SessionRecord EXCEPT !.p = FeedBuffer(parser, chunk)])

Init ==
    /\ SessInit
    /\ DecIdle
    /\ ApiIdle
    /\ parser = FreshParser

\* connect(): past the re-entry guard, a new transport, parser and writer
ConnectBody ==
    /\ state \notin {"connected", "connecting"}
    /\ Len(callpc) < MaxConnects
    /\ Load < MaxLoad
    /\ state' = "connecting"
    /\ cur' = Len(callpc) + 1
    /\ callpc' = Append(callpc, "tcp")
    /\ tstate' = Append(tstate, "connecting")
    /\ wire' = Append(wire, <<>>)
    /\ parser' = FreshParser
    /\ parserLive' = TRUE
    /\ writerLive' = TRUE
    /\ hook' = 0
    /\ UNCHANGED <<decVars, apiVars, net, refused, handshakeComplete, pending, timers, nextId,
                   outcome, sentOn, discPending, pushCount, pushesWhilePending,
                   parseErrors, upgraded>>

\* connect() called by the application
Connect == ConnectBody /\ UNCHANGED client

\* the socket of transport i connects; connect() call i resumes: state
\* 'connected', then _performHandshake writes HELLO 3 to the current
\* transport and hooks the reply callback of the current parser; the server
\* answers HELLO 3 with +OK or with an error
TransportUp(i) ==
    /\ callpc[i] = "tcp"
    /\ tstate[i] \in {"connecting", "closing"}
    /\ tstate' = [tstate EXCEPT ![i] = "connected"]
    /\ IF cur # 0 /\ writerLive /\ tstate'[cur] = "connected" /\ parserLive
       THEN /\ state' = "connected"
            /\ IF discPending = cur THEN wire' = wire
               ELSE \E f \in {HelloOK, ErrFrame(0)} :
                       wire' = [wire EXCEPT ![cur] = Append(@, f)]
            /\ hook' = i
            /\ callpc' = [callpc EXCEPT ![i] = "hs"]
       ELSE /\ state' = "error"
            /\ callpc' = [callpc EXCEPT ![i] = "failed"]
            /\ UNCHANGED <<wire, hook>>
    /\ UNCHANGED <<decVars, apiVars, net, client, refused, parser, handshakeComplete, cur, parserLive, writerLive,
                   pending, timers, nextId, outcome, sentOn, discPending,
                   pushCount, pushesWhilePending, parseErrors, upgraded>>

\* the socket of transport i fails to connect or its connect timer fires;
\* connect() call i lands in its catch block
TransportFail(i) ==
    /\ callpc[i] = "tcp"
    /\ tstate[i] = "connecting"
    /\ callpc' = [callpc EXCEPT ![i] = "failed"]
    /\ state' = "error"
    /\ UNCHANGED <<decVars, apiVars, net, client, refused, parser, handshakeComplete, cur, parserLive, writerLive,
                   hook, pending, timers, nextId, outcome, sentOn, tstate, wire,
                   discPending, pushCount, pushesWhilePending, parseErrors,
                   upgraded>>

\* the handshake timer of connect() call i fires: the call lands in its
\* catch block; the reply hook stays in place
HandshakeTimeout(i) ==
    /\ callpc[i] = "hs"
    /\ callpc' = [callpc EXCEPT ![i] = "failed"]
    /\ state' = "error"
    /\ UNCHANGED <<decVars, apiVars, net, client, refused, parser, handshakeComplete, cur, parserLive, writerLive,
                   hook, pending, timers, nextId, outcome, sentOn, tstate, wire,
                   discPending, pushCount, pushesWhilePending, parseErrors,
                   upgraded>>

\* sendCommand past its guards: a new id, the timer armed, the entry stored,
\* the command encoded and written; a write refused by the transport rejects
\* a promise nobody awaits.  The server answers a command it receives with
\* the reply to that command or with an error.
SendCommandBody ==
    /\ IsConnected
    /\ cur # 0 /\ writerLive
    /\ nextId' = nextId + 1
    /\ timers' = timers \cup {nextId + 1}
    /\ pending' = Append(pending, nextId + 1)
    /\ outcome' = Append(outcome, [st |-> "pending", got |-> <<>>])
    /\ IF tstate[cur] = "connected"
       THEN /\ sentOn' = Append(sentOn, cur)
            /\ IF discPending = cur THEN wire' = wire
               ELSE \E f \in {ReplyFrame(nextId + 1), ErrFrame(nextId + 1)} :
                       wire' = [wire EXCEPT ![cur] = Append(@, f)]
       ELSE /\ sentOn' = Append(sentOn, 0)
            /\ wire' = wire
    /\ UNCHANGED <<decVars, apiVars, net, refused, parser, state, handshakeComplete, cur,
                   parserLive, writerLive, hook, callpc, tstate, discPending,
                   pushCount, pushesWhilePending, parseErrors, upgraded>>

\* sendCommand called by the application
SendCommand ==
    /\ nextId + ClientReserve < MaxCommands
    /\ Load < MaxLoad
    /\ SendCommandBody
    /\ UNCHANGED client

\* sendCommand stopped by one of its guards: ConnectionRequiredError is
\* thrown before an id is generated
SendRefused ==
    /\ ~IsConnected \/ cur = 0 \/ ~writerLive
    /\ refused < MaxRefused
    /\ Load < MaxLoad
    /\ refused' = refused + 1
    /\ UNCHANGED <<parser, decVars, apiVars, net, client, state, handshakeComplete, cur, parserLive,
                   writerLive, hook, pending, timers, nextId, outcome, sentOn,
                   callpc, tstate, wire, discPending, pushCount,
                   pushesWhilePending, parseErrors, upgraded>>

\* the timer callback deletes the head of the map
TimeoutDeleteHead(q, id) == Tail(q)

\* the timer callback of sendCommand: delete the entry of this command
TimeoutDelete(q, id) == Without(q, id)

\* the command timer of id fires: the entry is deleted, the promise rejected
CommandTimeout(id) ==
    /\ id \in timers
    /\ timers' = timers \ {id}
    /\ pending' = TimeoutDelete(pending, id)
    /\ outcome' = [outcome EXCEPT ![id] = IF @.st = "pending"
                                          THEN [st |-> "timeout", got |-> <<>>]
                                          ELSE @]
    /\ UNCHANGED <<decVars, apiVars, net, client, refused, parser, state, handshakeComplete, cur, parserLive,
                   writerLive, hook, nextId, sentOn, callpc, tstate, wire,
                   discPending, pushCount, pushesWhilePending, parseErrors,
                   upgraded>>

\* the server of transport i sends a push frame
ServerPush(i) ==
    /\ tstate[i] = "connected"
    /\ PushesSent < MaxPushes
    /\ Load < MaxLoad
    /\ wire' = [wire EXCEPT ![i] = Append(@, PushFrame)]
    /\ UNCHANGED <<decVars, apiVars, net, client, refused, parser, state, handshakeComplete, cur, parserLive,
                   writerLive, hook, pending, timers, nextId, outcome, sentOn,
                   callpc, tstate, discPending, pushCount, pushesWhilePending,
                   parseErrors, upgraded>>

\* the server of transport i sends bytes that are no RESP3 frame
ServerGarbage(i) ==
    /\ tstate[i] = "connected"
    /\ GarbageSent < MaxGarbage
    /\ Load < MaxLoad
    /\ wire' = [wire EXCEPT ![i] = Append(@, Garbage)]
    /\ UNCHANGED <<decVars, apiVars, net, client, refused, parser, state, handshakeComplete, cur, parserLive,
                   writerLive, hook, pending, timers, nextId, outcome, sentOn,
                   callpc, tstate, discPending, pushCount, pushesWhilePending,
                   parseErrors, upgraded>>

\* the 'data' handler on transport i with the first n frames in flight as
\* one chunk, then the continuation of the connect() call whose handshake
\* the chunk settled
DeliverData(i, n) ==
    /\ tstate[i] \in {"connected", "closing"}
    /\ n \in 1..Len(wire[i])
    /\ \E r \in {FeedSession(Flatten(SubSeq(wire[i], 1, n)))} :
       LET settles == r.hs # "none" /\ callpc[r.hsCall] = "hs"
       IN /\ parser' = r.p
          /\ hook' = r.hook
          /\ pending' = r.pending
          /\ timers' = r.timers
          /\ outcome' = r.outcome
          /\ pushCount' = r.pushCount
          /\ pushesWhilePending' = r.pushesWhilePending
          /\ parseErrors' = r.parseErrors
          /\ upgraded' = IF r.hs = "ok" THEN upgraded \cup {i} ELSE upgraded
          /\ handshakeComplete' = IF settles /\ r.hs = "ok" THEN TRUE
                                  ELSE handshakeComplete
          /\ state' = IF settles /\ r.hs = "fail" THEN "error" ELSE state
          /\ callpc' = IF settles
                       THEN [callpc EXCEPT ![r.hsCall] =
                                IF r.hs = "ok" THEN "done" ELSE "failed"]
                       ELSE callpc
    /\ wire' = [wire EXCEPT ![i] = SubSeq(@, n + 1, Len(@))]
    /\ UNCHANGED <<decVars, apiVars, net, client, refused, cur, parserLive, writerLive, nextId, sentOn, tstate,
                   discPending>>

\* the socket of transport i closes under the session: the 'close' handler
\* of _setupTransportHandlers
TransportClose(i) ==
    /\ tstate[i] = "connected"
    /\ discPending # i
    /\ tstate' = [tstate EXCEPT ![i] = "closed"]
    /\ state' = "disconnected"
    /\ wire' = [wire EXCEPT ![i] = <<>>]
    /\ UNCHANGED <<decVars, apiVars, net, client, refused, parser, handshakeComplete, cur, parserLive, writerLive,
                   hook, pending, timers, nextId, outcome, sentOn, callpc,
                   discPending, pushCount, pushesWhilePending, parseErrors,
                   upgraded>>

\* disconnect() rejects every pending command with ConnectionRequiredError
\* disconnect() drops the pending commands without rejecting them
RejectNone(oc, q) == oc
RejectAll(oc, q) ==
    [k \in 1..Len(oc) |->
        IF InPending(q, k) THEN [st |-> "connection-required", got |-> <<>>]
        ELSE oc[k]]

\* disconnect() that forgets the transport at once, without 'disconnecting'
DisconnectAbrupt ==
    /\ state \notin {"disconnected", "disconnecting"}
    /\ discPending = 0
    /\ state' = "disconnected"
    /\ cur' = 0
    /\ UNCHANGED <<parser, decVars, apiVars, net, client, refused, handshakeComplete,
                   parserLive, writerLive, hook, pending, timers, nextId, outcome,
                   sentOn, callpc, tstate, wire, discPending, pushCount,
                   pushesWhilePending, parseErrors, upgraded>>
\* disconnect() up to its await: state 'disconnecting', the pending commands
\* rejected, transport.close() called; with no open transport the call runs
\* to its end at once
DisconnectBegin ==
    /\ state \notin {"disconnected", "disconnecting"}
    /\ discPending = 0
    /\ outcome' = RejectAll(outcome, pending)
    /\ timers' = timers \ {pending[n] : n \in 1..Len(pending)}
    /\ pending' = <<>>
    /\ IF cur = 0 \/ tstate[cur] \in {"closed", "disconnected"}
       THEN /\ state' = "disconnected"
            /\ cur' = 0
            /\ parserLive' = FALSE
            /\ writerLive' = FALSE
            /\ handshakeComplete' = FALSE
            /\ parser' = FreshParser
            /\ hook' = 0
            /\ UNCHANGED <<tstate, discPending>>
       ELSE /\ state' = "disconnecting"
            /\ tstate' = [tstate EXCEPT ![cur] = "closing"]
            /\ discPending' = cur
            /\ UNCHANGED <<cur, parserLive, writerLive, handshakeComplete, parser,
                           hook>>
    /\ UNCHANGED <<decVars, apiVars, net, client, refused, nextId, sentOn, callpc, wire, pushCount,
                   pushesWhilePending, parseErrors, upgraded>>

\* the socket closes after transport.close(); disconnect() resumes and drops
\* transport, parser and writer
DisconnectEnd ==
    /\ discPending # 0
    /\ tstate[discPending] \in {"closing", "connected"}
    /\ tstate' = [tstate EXCEPT ![discPending] = "closed"]
    /\ wire' = [wire EXCEPT ![discPending] = <<>>]
    /\ discPending' = 0
    /\ state' = "disconnected"
    /\ cur' = 0
    /\ parserLive' = FALSE
    /\ writerLive' = FALSE
    /\ handshakeComplete' = FALSE
    /\ parser' = FreshParser
    /\ hook' = 0
    /\ UNCHANGED <<decVars, apiVars, net, client, refused, pending, timers, nextId, outcome, sentOn, callpc,
                   pushCount, pushesWhilePending, parseErrors, upgraded>>

Next ==
    \/ Connect
    \/ \E i \in Calls : TransportUp(i)
    \/ \E i \in Calls : TransportFail(i)
    \/ \E i \in Calls : HandshakeTimeout(i)
    \/ SendCommand
    \/ SendRefused
    \/ \E id \in Ids : CommandTimeout(id)
    \/ \E i \in Calls : ServerPush(i)
    \/ \E i \in Calls : ServerGarbage(i)
    \/ \E i \in Calls : \E n \in 1..Len(wire[i]) : DeliverData(i, n)
    \/ \E i \in Calls : TransportClose(i)
    \/ DisconnectBegin
    \/ DisconnectEnd

Spec == Init /\ [][Next]_vars

\* the session with what the event loop is bound to run: a handshake timer
\* or a command timer armed by setTimeout and not cleared fires, and a
\* disconnect() that has begun runs to its end
SpecTimers ==
    /\ Spec
    /\ \A i \in 1..MaxConnects : WF_vars(i \in Calls /\ HandshakeTimeout(i))
    /\ \A id \in 1..MaxCommands : WF_vars(id \in Ids /\ CommandTimeout(id))
    /\ WF_vars(DisconnectEnd)

----------------------------------------------------------------------------
(* RedisClient.send with autoConnect enabled, on top of the session *)

\* what is left unchanged by a send that neither connects nor dispatches
SessionUntouched ==
    UNCHANGED <<parser, decVars, apiVars, net, state, handshakeComplete, cur, parserLive,
                writerLive, hook, pending, timers, nextId, outcome, sentOn,
                callpc, tstate, wire, discPending, pushCount,
                pushesWhilePending, parseErrors, upgraded, refused>>

\* send(): up to its first suspension.  Ready: the command is dispatched
\* at once.  Not ready: connect() is awaited; its re-entry guard returns
\* at once in states 'connected' and 'connecting', the readiness test
\* that follows runs before any event and throws ConnectionRequiredError;
\* in any other state a connection attempt starts and send() suspends.
AutoSendBegin ==
    /\ client.pc = "idle"
    /\ IF IsConnected
       THEN /\ nextId < MaxCommands
            /\ Load < MaxLoad
            /\ SendCommandBody
            /\ client' = [pc |-> "sent", call |-> 0]
       ELSE IF state \in {"connected", "connecting"}
            THEN /\ client' = [pc |-> "connection-required", call |-> 0]
                 /\ SessionUntouched
            ELSE /\ nextId < MaxCommands
                 /\ Load + 1 < MaxLoad
                 /\ ConnectBody
                 /\ client' = [pc |-> "awaiting", call |-> Len(callpc) + 1]

\* the awaited connect() call has settled
ClientResumable ==
    /\ client.pc = "awaiting"
    /\ callpc[client.call] \in {"done", "failed"}

\* send() resumes: a rejected connect() rejects the send; otherwise the
\* readiness test, then the dispatch through sendCommand
AutoSendResume ==
    /\ ClientResumable
    /\ IF callpc[client.call] = "failed"
       THEN /\ client' = [client EXCEPT !.pc = "connect-error"]
            /\ SessionUntouched
       ELSE IF IsConnected /\ cur # 0 /\ writerLive
            THEN /\ SendCommandBody
                 /\ client' = [client EXCEPT !.pc = "sent"]
            ELSE /\ client' = [client EXCEPT !.pc = "connection-required"]
                 /\ SessionUntouched

\* a suspended send() resumes as soon as its connect() settles, before any
\* other event or call
NextClient ==
    \/ AutoSendResume
    \/ ~ClientResumable /\ Next
    \/ ~ClientResumable /\ AutoSendBegin

SpecClient == Init /\ [][NextClient]_vars

----------------------------------------------------------------------------
(* TcpTransport on its own, driven by its callers and by its socket.  A    *)
(* chunk passed to write() is named by the number of the write() call; it  *)
(* is the view that encodeCommand returned on the buffer of the session's  *)
(* Resp3Writer, whose written bytes are wbuf.  stream names the chunks     *)
(* handed to the socket and sent holds the bytes each of them had then.    *)
(* One socket is followed at a time: a socket that connect() replaces      *)
(* while it is still open is abandoned and its events are not followed.    *)

MaxTcpConnects == 3  \* connect() calls on the transport
MaxWrites == 3       \* write() calls on the transport
MaxStream == 4       \* chunks handed to the socket

\* connect(): a call made while connecting gets every state but 'connected'
ConnectJoinsNever == FALSE
\* connect(): a call made in state 'connecting' gets the promise in flight
ConnectJoins == net.state = "connecting"

\* connect(): 'connected' throws ALREADY_CONNECTED (completion 0),
\* 'connecting' returns _connectPromise, any other state starts an attempt
\* on a new socket and keeps its promise in _connectPromise
TcpConnect ==
    /\ Len(net.callers) < MaxTcpConnects
    /\ IF net.state = "connected"
       THEN net' = [net EXCEPT !.callers = Append(@, 0)]
       ELSE IF ConnectJoins
       THEN net' = [net EXCEPT !.callers = Append(@, Len(net.attempts))]
       ELSE net' = [net EXCEPT !.state = "connecting",
                               !.attempts = Append(@, "pending"),
                               !.inflight = TRUE,
                               !.sockOpen = TRUE,
                               !.needDrain = FALSE,
                               !.callers = Append(@, Len(net.attempts) + 1)]
    /\ UNCHANGED <<parser, decVars, sessVars, apiVars>>

\* the socket's 'connect' event: state 'connected', the promise resolves
TcpSocketConnect ==
    /\ net.inflight /\ net.sockOpen
    /\ net' = [net EXCEPT !.state = "connected", !.inflight = FALSE,
                          !.attempts[Len(net.attempts)] = "ok"]
    /\ UNCHANGED <<parser, decVars, sessVars, apiVars>>

\* the socket's 'error' event before it connected, or the connect timer:
\* the promise rejects, _state is left as it is
TcpSocketError ==
    /\ net.inflight /\ net.sockOpen
    /\ net' = [net EXCEPT !.inflight = FALSE, !.sockOpen = FALSE,
                          !.attempts[Len(net.attempts)] = "err"]
    /\ UNCHANGED <<parser, decVars, sessVars, apiVars>>

\* writeBulkString
WriteBulkString(t) == <<"$">> \o IntToString(Len(t)) \o CRLF \o t \o CRLF

\* encodeCommand: the array header, the command and its arguments
EncodeCommand(c) ==
    <<"*">> \o IntToString(Len(c)) \o CRLF \o
    (IF Len(c) = 1 THEN WriteBulkString(c[1])
     ELSE WriteBulkString(c[1]) \o WriteBulkString(c[2]))

\* the command of the n-th sendCommand: GET <n> or PING
CommandOf(n) ==
    IF n % 2 = 1 THEN <<<<"G", "E", "T">>, IntToString(n)>> ELSE <<<<"P", "I", "N", "G">>>>

\* reset() and the write calls of encodeCommand: the bytes go into the
\* writer's buffer from offset 0, what lies behind them stays
OverWrite(buf, bytes) == bytes \o SubSeq(buf, Len(bytes) + 1, Len(buf))

\* the bytes seen through the view of chunk n: _buffer.subarray(0, _offset)
ViewOf(buf, n) == SubSeq(buf, 1, Len(EncodeCommand(CommandOf(n))))

\* socket.write(data) for each of the chunks
Handed(n, chunks) ==
    [n EXCEPT !.stream = @ \o chunks,
              !.sent = @ \o [k \in 1..Len(chunks) |-> ViewOf(n.wbuf, chunks[k])]]

\* _processWriteQueue, with the socket answering true to the first j
\* writes and false to the next one: every chunk shifted from the queue is
\* handed to the socket, the one answered false is put back at the front
ProcessWriteQueue(n, j) ==
    IF ~n.sockOpen \/ n.queue = <<>> THEN n
    ELSE IF j >= Len(n.queue)
    THEN [Handed(n, n.queue) EXCEPT !.queue = <<>>]
    ELSE [Handed(n, SubSeq(n.queue, 1, j + 1)) EXCEPT
              !.queue = SubSeq(n.queue, j + 1, Len(n.queue)),
              !.needDrain = TRUE]

\* write(): allowed in the states where the socket is there
WriteAllowedWithSocket == net.state \in {"connected", "closing"}
\* write(): allowed in state 'connected' only
WriteAllowed == net.state = "connected"

\* the caller encodes its command and passes the view to write():
\* INVALID_STATE outside 'connected'; otherwise the chunk joins the queue
\* and the queue is processed (_isWriting is false between calls)
TcpWrite ==
    /\ Len(net.writeRes) < MaxWrites
    /\ \E enc \in {[net EXCEPT !.wbuf = OverWrite(@, EncodeCommand(
                                        CommandOf(Len(net.writeRes) + 1)))]} :
          IF ~WriteAllowed
          THEN net' = [enc EXCEPT !.writeRes = Append(@, "invalid-state")]
          ELSE \E j \in 0..Len(net.queue) + 1 :
                  /\ net' = ProcessWriteQueue(
                                [enc EXCEPT !.writeRes = Append(@, "ok"),
                                            !.queue = Append(@, Len(net.writeRes) + 1)], j)
                  /\ Len(net'.stream) <= MaxStream
    /\ UNCHANGED <<parser, decVars, sessVars, apiVars>>

\* the socket's 'drain' event, emitted after a write was answered false
TcpDrain ==
    /\ net.needDrain /\ net.sockOpen
    /\ net.state = "connected"
    /\ \E j \in 0..Len(net.queue) :
          /\ net' = ProcessWriteQueue([net EXCEPT !.needDrain = FALSE], j)
          /\ Len(net'.stream) <= MaxStream
    /\ UNCHANGED <<parser, decVars, sessVars, apiVars>>

\* close(): nothing in 'closed' and 'disconnected'; otherwise 'closing',
\* socket.end(), and the socket's 'close' event is awaited
TcpClose ==
    /\ net.state \notin {"closed", "disconnected"}
    /\ net.state # "closing"
    /\ net' = [net EXCEPT !.state = "closing"]
    /\ UNCHANGED <<parser, decVars, sessVars, apiVars>>

\* the socket's 'close' event, by the peer or after end(): state 'closed'
TcpSocketClose ==
    /\ net.sockOpen
    /\ net.state \in {"connected", "closing"}
    /\ net' = [net EXCEPT !.state = "closed", !.sockOpen = FALSE,
                          !.inflight = FALSE, !.needDrain = FALSE]
    /\ UNCHANGED <<parser, decVars, sessVars, apiVars>>

NextTransport ==
    \/ TcpConnect
    \/ TcpSocketConnect
    \/ TcpSocketError
    \/ TcpWrite
    \/ TcpDrain
    \/ TcpClose
    \/ TcpSocketClose

SpecTransport == Init /\ [][NextTransport]_vars

----------------------------------------------------------------------------
(* RedisClient.send through the CommandRegistry.  A verb is a sequence of  *)
(* characters, an argument is a string; Undefined stands for the value of  *)
(* an argument that was not passed.                                        *)

MaxArgs == 3        \* arguments of a send call

UpperChars == <<"A", "B", "C", "D", "E", "F", "G", "H", "I", "J", "K", "L", "M",
                "N", "O", "P", "Q", "R", "S", "T", "U", "V", "W", "X", "Y", "Z">>
LowerChars == <<"a", "b", "c", "d", "e", "f", "g", "h", "i", "j", "k", "l", "m",
                "n", "o", "p", "q", "r", "s", "t", "u", "v", "w", "x", "y", "z">>

\* String.prototype.toLowerCase on the letters of a verb
LowerChar(c) ==
    IF \E i \in 1..Len(UpperChars) : UpperChars[i] = c
    THEN LowerChars[CHOOSE i \in 1..Len(UpperChars) : UpperChars[i] = c]
    ELSE c
ToLowerCase(v) == [i \in 1..Len(v) |-> LowerChar(v[i])]

Undefined == "undefined"

\* args[i] of a rest parameter, 0-based
ArgAt(args, i) == IF i < Len(args) THEN args[i + 1] ELSE Undefined

\* what an executor does: hand a command to connection.sendCommand, or throw
Dispatch(verb, args) == [tag |-> "dispatch", verb |-> verb, args |-> args]
Throw(what) == [tag |-> what, verb |-> <<>>, args |-> <<>>]

\* BasicCommands.ping: the message only when it is truthy
Ping(args) ==
    Dispatch(<<"P", "I", "N", "G">>,
             IF ArgAt(args, 0) \in {Undefined, ""} THEN <<>> ELSE <<ArgAt(args, 0)>>)

\* BasicCommands.echo, get: the first argument alone
Echo(args) == Dispatch(<<"E", "C", "H", "O">>, <<ArgAt(args, 0)>>)
Get(args) == Dispatch(<<"G", "E", "T">>, <<ArgAt(args, 0)>>)

\* BasicCommands.set: key and value; options given as a string carry no
\* EX, PX, EXAT, PXAT, NX, XX, KEEPTTL or GET property
SetKey(args) == Dispatch(<<"S", "E", "T">>, <<ArgAt(args, 0), ArgAt(args, 1)>>)

\* BasicCommands.del, exists: all the keys, at least one
Del(args) ==
    IF Len(args) = 0 THEN Throw("requires-key") ELSE Dispatch(<<"D", "E", "L">>, args)
Exists(args) ==
    IF Len(args) = 0 THEN Throw("requires-key")
    ELSE Dispatch(<<"E", "X", "I", "S", "T", "S">>, args)

\* CommandRegistry.execute: the executor registered under the lower-case
\* verb, 'Unknown command' when there is none
RegistryExecute(verb, args) ==
    LET name == ToLowerCase(verb)
    IN CASE name = <<"p", "i", "n", "g">> -> Ping(args)
         [] name = <<"e", "c", "h", "o">> -> Echo(args)
         [] name = <<"g", "e", "t">> -> Get(args)
         [] name = <<"s", "e", "t">> -> SetKey(args)
         [] name = <<"d", "e", "l">> -> Del(args)
         [] name = <<"e", "x", "i", "s", "t", "s">> -> Exists(args)
         [] OTHER -> Throw("unknown-command")

\* RedisClient.send with the session ready or not (autoConnect aside)
ClientSend(ready, verb, args) ==
    IF ~ready THEN Throw("connection-required") ELSE RegistryExecute(verb, args)

Verbs == {<<"P", "I", "N", "G">>, <<"p", "i", "n", "g">>, <<"e", "c", "h", "o">>,
          <<"G", "e", "t">>, <<"s", "e", "t">>, <<"D", "E", "L">>,
          <<"e", "x", "i", "s", "t", "s">>, <<"I", "N", "C", "R">>,
          <<"h", "g", "e", "t", "a", "l", "l">>}
ArgValues == {"", "k", "v"}
ArgSeqs == UNION {[1..n -> ArgValues] : n \in 0..MaxArgs}

InitRegistry ==
    /\ SessInit
    /\ DecIdle
    /\ parser = FreshParser
    /\ opts = [given |-> <<>>, out |-> <<>>]
    /\ clock = [pc |-> "idle", limit |-> 0, now |-> 0, tcpTimer |-> <<>>, hsTimer |-> <<>>]
    /\ \E v \in Verbs : \E a \in ArgSeqs : \E r \in BOOLEAN :
          cmd = [verb |-> v, args |-> a, ready |-> r, out |-> <<>>]

\* the send call under test is made
SendVerb ==
    /\ cmd.out = <<>>
    /\ cmd' = [cmd EXCEPT !.out = <<ClientSend(cmd.ready, cmd.verb, cmd.args)>>]
    /\ UNCHANGED <<parser, decVars, sessVars, net, opts, clock>>

NextRegistry == SendVerb

SpecRegistry == InitRegistry /\ [][NextRegistry]_vars

----------------------------------------------------------------------------
(* Construction of a RedisClient: _normalizeOptions, _parseUrl and          *)
(* _validateOptions.  An option that was not given is <<>>, a given one is  *)
(* <<n>>; a number computed by parseInt is <<n>>, or <<>> for NaN.  A URL   *)
(* is given by its scheme, the text of its port and the text of its path.   *)

DEFAULT_CLIENT_OPTIONS ==
    [port |-> 6379, connectTimeout |-> 5000, commandTimeout |-> 5000, database |-> 0]

RECURSIVE ParseDigits(_, _)
ParseDigits(t, acc) ==
    IF t = <<>> \/ ~IsDigit(Head(t)) THEN acc
    ELSE ParseDigits(Tail(t), acc * 10 + DigitVal(Head(t)))

\* parseInt(t, 10): an optional sign and the leading digits, NaN without any
ParseInt10(t) ==
    LET neg == t # <<>> /\ Head(t) = "-"
        body == IF neg THEN Tail(t) ELSE t
    IN IF body = <<>> \/ ~IsDigit(Head(body)) THEN <<>>
       ELSE <<(IF neg THEN 0 - 1 ELSE 1) * ParseDigits(body, 0)>>

\* x < k for a number that may be NaN
Below(x, k) == x # <<>> /\ x[1] < k

\* _parseUrl: new URL refuses a port above 65535, the protocol is checked,
\* port and database are read with parseInt
ParseUrl(u) ==
    IF u.port # <<>> /\ ParseInt10(u.port)[1] > 65535 THEN [tag |-> "error"]
    ELSE IF u.scheme \notin {"redis", "rediss"} THEN [tag |-> "error"]
    ELSE [tag |-> "parsed",
          port |-> IF u.port # <<>> THEN ParseInt10(u.port) ELSE <<6379>>,
          database |-> IF u.path # <<>> THEN ParseInt10(Tail(u.path)) ELSE <<0>>]

\* _validateOptions, reduced to its database test
ValidateDatabaseOnly(o) == ~Below(o.database, 0)

\* _validateOptions: TRUE when no ConfigurationError is thrown
ValidateOptions(o) ==
    /\ ~(Below(o.port, 1) \/ (o.port # <<>> /\ o.port[1] > 65535))
    /\ ~Below(o.connectTimeout, 0)
    /\ ~Below(o.commandTimeout, 0)
    /\ ~Below(o.database, 0)

\* { ...DEFAULT_CLIENT_OPTIONS, ...options }
Spread(g) ==
    [port |-> IF g.port = <<>> THEN <<DEFAULT_CLIENT_OPTIONS.port>> ELSE g.port,
     connectTimeout |-> IF g.connectTimeout = <<>>
                        THEN <<DEFAULT_CLIENT_OPTIONS.connectTimeout>> ELSE g.connectTimeout,
     commandTimeout |-> IF g.commandTimeout = <<>>
                        THEN <<DEFAULT_CLIENT_OPTIONS.commandTimeout>> ELSE g.commandTimeout,
     database |-> IF g.database = <<>> THEN <<DEFAULT_CLIENT_OPTIONS.database>> ELSE g.database]

\* _normalizeOptions: the values read from the URL replace the given ones
NormalizeOptions(g) ==
    LET Checked(o) == IF ValidateOptions(o) THEN [tag |-> "client", options |-> o]
                      ELSE [tag |-> "error"]
        WithUrl(parsed) ==
            IF parsed.tag = "error" THEN [tag |-> "error"]
            ELSE Checked([Spread(g) EXCEPT !.port = parsed.port,
                                           !.database = parsed.database])
    IN IF g.url = <<>> THEN Checked(Spread(g)) ELSE WithUrl(ParseUrl(g.url[1]))

Urls ==
    [scheme : {"redis", "rediss", "invalid"},
     port : {<<>>, <<"0">>, <<"6", "3", "8", "0">>, <<"6", "5", "5", "3", "6">>},
     path : {<<>>, <<"/">>, <<"/", "2">>, <<"/", "-", "1">>}]
GivenOptions ==
    [port : {<<>>, <<0 - 1>>, <<0>>, <<1>>, <<65535>>, <<65536>>},
     connectTimeout : {<<>>, <<0 - 1>>, <<0>>},
     commandTimeout : {<<>>, <<0 - 1>>, <<0>>},
     database : {<<>>, <<0 - 1>>, <<1>>},
     url : {<<>>} \cup {<<u>> : u \in Urls}]

InitOptions ==
    /\ SessInit
    /\ DecIdle
    /\ parser = FreshParser
    /\ cmd = [verb |-> <<>>, args |-> <<>>, ready |-> FALSE, out |-> <<>>]
    /\ clock = [pc |-> "idle", limit |-> 0, now |-> 0, tcpTimer |-> <<>>, hsTimer |-> <<>>]
    /\ \E g \in GivenOptions : opts = [given |-> <<g>>, out |-> <<>>]

\* new RedisClient(options)
Construct ==
    /\ opts.given # <<>>
    /\ opts.out = <<>>
    /\ opts' = [opts EXCEPT !.out = <<NormalizeOptions(opts.given[1])>>]
    /\ UNCHANGED <<parser, decVars, sessVars, net, cmd, clock>>

NextOptions == Construct

SpecOptions == InitOptions /\ [][NextOptions]_vars

----------------------------------------------------------------------------
(* One connect() call against time.  Time is counted in ticks since the    *)
(* call; limit is the connectTimeout option.  A timer fires at its         *)
(* deadline: time does not pass the deadline of an armed timer.            *)

MaxConnectTimeout == 4   \* largest connectTimeout, in ticks

InitConnectTime ==
    /\ SessInit
    /\ DecIdle
    /\ parser = FreshParser
    /\ cmd = [verb |-> <<>>, args |-> <<>>, ready |-> FALSE, out |-> <<>>]
    /\ opts = [given |-> <<>>, out |-> <<>>]
    /\ \E t \in 1..MaxConnectTimeout :
          clock = [pc |-> "idle", limit |-> t, now |-> 0, tcpTimer |-> <<>>, hsTimer |-> <<>>]

\* connect(): _performConnect arms the connect timer with connectTimeout
TimedConnect ==
    /\ clock.pc = "idle"
    /\ clock' = [clock EXCEPT !.pc = "tcp", !.tcpTimer = <<clock.now + clock.limit>>]
    /\ UNCHANGED <<parser, decVars, sessVars, net, cmd, opts>>

\* one tick passes while the call is unsettled
Tick ==
    /\ clock.pc \in {"tcp", "hs"}
    /\ \A d \in {clock.tcpTimer, clock.hsTimer} : d # <<>> => clock.now < d[1]
    /\ clock' = [clock EXCEPT !.now = @ + 1]
    /\ UNCHANGED <<parser, decVars, sessVars, net, cmd, opts>>

\* the socket connects: the connect timer is cleared, HELLO 3 is written
\* and _performHandshake arms its own timer with connectTimeout
TimedSocketConnect ==
    /\ clock.pc = "tcp"
    /\ clock' = [clock EXCEPT !.pc = "hs", !.tcpTimer = <<>>,
                              !.hsTimer = <<clock.now + clock.limit>>]
    /\ UNCHANGED <<parser, decVars, sessVars, net, cmd, opts>>

\* the socket's 'error' event: the connect timer is cleared, connect() rejects
TimedSocketError ==
    /\ clock.pc = "tcp"
    /\ clock' = [clock EXCEPT !.pc = "failed", !.tcpTimer = <<>>]
    /\ UNCHANGED <<parser, decVars, sessVars, net, cmd, opts>>

\* the connect timer fires: connect() rejects
TimedConnectTimeout ==
    /\ clock.pc = "tcp"
    /\ clock.tcpTimer = <<clock.now>>
    /\ clock' = [clock EXCEPT !.pc = "failed", !.tcpTimer = <<>>]
    /\ UNCHANGED <<parser, decVars, sessVars, net, cmd, opts>>

\* the reply to HELLO 3 arrives: the handshake timer is cleared and
\* connect() resolves or rejects
TimedHandshakeReply ==
    /\ clock.pc = "hs"
    /\ \E r \in {"done", "failed"} : clock' = [clock EXCEPT !.pc = r, !.hsTimer = <<>>]
    /\ UNCHANGED <<parser, decVars, sessVars, net, cmd, opts>>

\* the handshake timer fires: connect() rejects
TimedHandshakeTimeout ==
    /\ clock.pc = "hs"
    /\ clock.hsTimer = <<clock.now>>
    /\ clock' = [clock EXCEPT !.pc = "failed", !.hsTimer = <<>>]
    /\ UNCHANGED <<parser, decVars, sessVars, net, cmd, opts>>

NextConnectTime ==
    \/ TimedConnect
    \/ Tick
    \/ TimedSocketConnect
    \/ TimedSocketError
    \/ TimedConnectTimeout
    \/ TimedHandshakeReply
    \/ TimedHandshakeTimeout

SpecConnectTime == InitConnectTime /\ [][NextConnectTime]_vars

----------------------------------------------------------------------------
(* Properties of the session *)

\* no command was removed from the map by its timer or by disconnect()
NoRemoval == \A id \in Ids : outcome[id].st \notin {"timeout", "connection-required"}

\* one connection, no timeout, no cancellation, no decode error
CleanRun == Len(callpc) = 1 /\ parseErrors = 0 /\ NoRemoval

Settled(id) == outcome[id].st \in {"value", "error"}

C3_OwnReplyOnly ==
    (Len(callpc) = 1 /\ parseErrors = 0) =>
        \A id \in Ids : outcome[id].st = "value" => outcome[id].got = IntToString(id)

\* C4: a decode error fails every command pending at that moment with a
\* decode error and leaves none pending
C4_DecodeErrorFailsAll ==
    [][parseErrors' > parseErrors =>
          /\ pending' = <<>>
          /\ \A id \in Ids :
                (InPending(pending, id) /\ outcome'[id].st \notin {"value", "error"})
                   => outcome'[id].st = "decode-error"]_vars

\* C5: disconnect() and the close of the transport in use fail every
\* pending command with connection-closed and leave none pending
C5_TeardownFailsPending ==
    [][(DisconnectBegin \/ (cur # 0 /\ TransportClose(cur))) =>
          /\ pending' = <<>>
          /\ \A id \in Ids :
                InPending(pending, id) => outcome'[id].st = "connection-closed"]_vars

\* C6: every command a transport took was written after HELLO 3 had been
\* answered by +OK on that transport; stated for the runs in which no
\* connect() call failed
C6_HandshakeBeforeCommands ==
    (\A i \in Calls : callpc[i] # "failed") =>
        \A id \in Ids : sentOn[id] # 0 => sentOn[id] \in upgraded

\* C10: a command timer firing removes and fails its own command only: the
\* other entries of the map, their timers and their promises stay as they are
C10_TimeoutFailsOnlyItsCommand ==
    [][\A id \in Ids :
          (outcome[id].st = "pending" /\ outcome'[id].st = "timeout") =>
             /\ pending' = Without(pending, id)
             /\ timers' = timers \ {id}
             /\ \A j \in Ids \ {id} : outcome'[j] = outcome[j]]_vars

\* the timer of the second command fired while the first command, submitted
\* before it, is still pending with its timer armed
C10_Witness ==
    /\ Len(outcome) = 2
    /\ outcome[2].st = "timeout"
    /\ outcome[1].st = "pending"
    /\ pending = <<1>>
    /\ 1 \in timers

\* C11: a sendCommand issued while the session is not both in state
\* 'connected' and handshake-complete fails with connection-required: no id
\* is generated, nothing joins the pending requests, and nothing is written to
\* any transport (no answer appears on a wire, no command is recorded as sent).
C11_NotConnectedSendRefused ==
    [][((nextId' # nextId \/ refused' # refused)
          /\ ~(state = "connected" /\ handshakeComplete)) =>
          /\ refused' = refused + 1
          /\ nextId' = nextId
          /\ pending' = pending
          /\ timers' = timers
          /\ outcome' = outcome
          /\ sentOn' = sentOn
          /\ wire' = wire]_vars

\* a call was refused while the transport was up and HELLO 3 still unanswered
C11_Witness ==
    /\ refused = 1
    /\ state = "connected"
    /\ ~handshakeComplete
    /\ nextId = 0
    /\ pending = <<>>

\* C12: with auto-connect enabled, a send issued while the session is
\* connecting or handshaking (state 'connecting', or 'connected' with the
\* handshake incomplete) waits for the connect in flight instead of
\* failing with connection-required.
C12_AutoSendWaitsForConnect ==
    [][(client.pc = "idle" /\ client'.pc # "idle"
          /\ ~IsConnected /\ state \in {"connecting", "connected"}) =>
          client'.pc = "awaiting"]_vars

\* the first frame of a chunk that is not a push frame
RECURSIVE FirstReplyFrame(_)
FirstReplyFrame(fs) ==
    IF fs = <<>> THEN <<>>
    ELSE IF IsPushFrame(Head(fs)) THEN FirstReplyFrame(Tail(fs))
    ELSE Head(fs)

\* C13: connect() call i succeeds only in a step that delivers, as the first
\* reply after HELLO 3, the simple string OK; a different first reply fails
\* the call, the handshake timer fails the call, a call whose transport
\* closed during the handshake never succeeds, and every call that reached
\* the handshake is eventually settled (succeeded or failed with an error).
C13_HandshakeOutcome ==
    /\ [][\A i \in Calls :
            /\ (callpc[i] = "hs" /\ callpc'[i] = "done") =>
                   /\ hook = i
                   /\ \E j \in Calls : \E n \in 1..Len(wire[j]) :
                         /\ DeliverData(j, n)
                         /\ FirstReplyFrame(SubSeq(wire[j], 1, n)) = HelloOK
            /\ (callpc[i] = "hs" /\ hook = i /\ parserLive) =>
                   \A j \in Calls : \A n \in 1..Len(wire[j]) :
                      (/\ DeliverData(j, n)
                       /\ FirstReplyFrame(SubSeq(wire[j], 1, n))
                              \notin {<<>>, HelloOK, Garbage}) =>
                          callpc'[i] = "failed"
            /\ (callpc[i] = "hs" /\ HandshakeTimeout(i)) => callpc'[i] = "failed"
            /\ (callpc[i] = "hs" /\ tstate[i] = "closed") => callpc'[i] # "done"]_vars
    /\ \A i \in 1..MaxConnects :
          (i \in Calls /\ callpc[i] = "hs") ~>
              (i \in Calls /\ callpc[i] \in {"done", "failed"})

\* C14: after a handshake failure (the call failed with its transport
\* connected) the session comes to rest closed, 'disconnected' being the
\* name the session has for that state, with the transport of the failed
\* call closed, instead of staying in state 'error' with the transport open.
C14_HandshakeFailureCloses ==
    \A i \in 1..MaxConnects :
        (i \in Calls /\ callpc[i] = "failed" /\ tstate[i] = "connected")
           ~> (/\ i \in Calls
               /\ state \in {"closed", "disconnected"}
               /\ tstate[i] = "closed")

\* C15: a reply that is not a push and arrives while the session is
\* connected, no handshake hook is installed and no command is pending is
\* fatal: the session leaves state 'connected' in that step.
C15_UnsolicitedReplyFatal ==
    [][\A i \in Calls : \A n \in 1..Len(wire[i]) :
          (/\ DeliverData(i, n)
           /\ parserLive
           /\ state = "connected"
           /\ hook = 0
           /\ pending = <<>>
           /\ FirstReplyFrame(SubSeq(wire[i], 1, n)) \notin {<<>>, Garbage}) =>
              state' # "connected"]_vars

\* the replies whose text is t
WithText(t) == {i \in 1..Len(replies) : replies[i].text = t}

\* C16: given the attributes map {k: v} followed by the values X and Y, X is
\* emitted once and carries exactly {k: v}, Y is emitted once and carries
\* no attributes.
C16_AttributesNextValueOnly ==
    (label = "attrXY" /\ input = <<>>) =>
        /\ \E i \in WithText(<<"X">>) :
              /\ WithText(<<"X">>) = {i}
              /\ replies[i].type = "simple_string"
              /\ replies[i].hasAttrs
              /\ replies[i].attrs = <<SimpleString(<<"k">>), SimpleString(<<"v">>)>>
        /\ \E j \in WithText(<<"Y">>) :
              /\ WithText(<<"Y">>) = {j}
              /\ replies[j].type = "simple_string"
              /\ ~replies[j].hasAttrs
        /\ errors = 0

\* the streams with a malformed frame followed by the well-formed value +a
BadLabels == {"bad", "badAttr", "badArray"}

\* C17: a feed reports at most one decode error; a feed that reported one
\* leaves the decoder with an empty buffer, offset 0, an empty frame stack
\* and no pending attributes; the decoder keeps running: the well-formed
\* value +a fed after the error, in one piece or in several, is emitted as
\* one reply without attributes and without a further error.
C17_ErrorResetsAndRecovers ==
    /\ [][/\ errors' <= errors + 1
          /\ errors' > errors =>
                /\ parser'.buffer = <<>>
                /\ parser'.offset = 0
                /\ parser'.frames = <<>>
                /\ ~parser'.hasPA
          /\ (label \in BadLabels /\ errors >= 1
                 /\ input = SS(<<"a">>) /\ input' = <<>>) =>
                /\ replies' = Append(replies, SimpleString(<<"a">>))
                /\ errors' = errors]_vars
    /\ []((label \in BadLabels /\ input = <<>> /\ parser.buffer = SS(<<"a">>)) =>
             /\ errors >= 1
             /\ replies # <<>>
             /\ replies[Len(replies)] = SimpleString(<<"a">>)
             /\ WithText(<<"a">>) = {Len(replies)})

\* the malformed frame arrived while an array was open; the decoder reported
\* one error and then emitted the value fed after it
C17_Witness ==
    /\ label = "badArray"
    /\ input = <<>>
    /\ errors = 1
    /\ replies = <<SimpleString(<<"a">>)>>
    /\ parser.frames = <<>>

\* the chunks write() accepted, in the order of the calls
AcceptedWrites ==
    SelectSeq([k \in 1..Len(net.writeRes) |-> k],
              LAMBDA k : net.writeRes[k] = "ok")

\* C18: what the socket was handed, followed by what is still queued, is
\* the accepted writes in the order they were issued: bytes reach the
\* stream in issue order and the queue holds exactly the unsent ones.
C18_WritesInOrder == net.stream \o net.queue = AcceptedWrites

C20_WriteOutsideConnected ==
    [][(/\ Len(net'.writeRes) > Len(net.writeRes)
        /\ net.state # "connected") =>
          /\ net'.writeRes[Len(net'.writeRes)] = "invalid-state"
          /\ net'.queue = net.queue
          /\ net'.stream = net.stream]_vars

\* a write() was refused on a closed transport whose queue was not empty
C20_Witness ==
    /\ net.state = "closed"
    /\ net.writeRes # <<>>
    /\ net.writeRes[Len(net.writeRes)] = "invalid-state"
    /\ net.queue # <<>>

\* C21: a submitted command is bounded by its command timer: as long as its
\* promise is unsettled the timer armed at submission is still armed, the
\* firing of the timer leaves the promise settled, and with the timers
\* firing every submitted command is eventually settled.
C21_CommandDeadline ==
    /\ [](\A id \in Ids : outcome[id].st = "pending" => id \in timers)
    /\ [][\A id \in Ids : CommandTimeout(id) => outcome'[id].st # "pending"]_vars
    /\ \A id \in 1..MaxCommands :
          (id \in Ids /\ outcome[id].st = "pending")
             ~> (id \in Ids /\ outcome[id].st # "pending")

\* the transport closed under a pending command, no reply can arrive, and
\* the command was settled by its timer
C21_Witness ==
    /\ Len(outcome) = 1
    /\ outcome[1].st = "timeout"
    /\ sentOn[1] = 1
    /\ tstate[1] = "closed"
    /\ timers = {}
    /\ pending = <<>>

\* C22: a send made with the session ready dispatches its verb (in any
\* letter case) and its arguments as they were passed, whatever the verb.
C22_AnyVerbDispatched ==
    (cmd.out # <<>> /\ cmd.ready) =>
        /\ cmd.out[1].tag = "dispatch"
        /\ ToLowerCase(cmd.out[1].verb) = ToLowerCase(cmd.verb)
        /\ cmd.out[1].args = cmd.args

\* C23: every client that construction lets through has a strictly positive
\* command timeout.
C23_CommandTimeoutPositive ==
    (opts.out # <<>> /\ opts.out[1].tag = "client") =>
        opts.out[1].options.commandTimeout[1] > 0

\* C24: construction ends in a configuration error whenever the port the
\* client would use (the URL's when a URL is given) is outside 1..65535, a
\* given timeout is negative, the database the client would use (the URL's
\* when a URL is given) is negative, or the URL's scheme is neither redis
\* nor rediss.
C24_InvalidOptionsRejected ==
    opts.out # <<>> =>
        LET g == opts.given[1]
            hasUrl == g.url # <<>>
            BadNumber(x, lo, hi) == x # <<>> /\ (x[1] < lo \/ x[1] > hi)
            badPort == IF hasUrl THEN BadNumber(ParseInt10(g.url[1].port), 1, 65535)
                       ELSE BadNumber(g.port, 1, 65535)
            badDb == IF hasUrl
                     THEN g.url[1].path # <<>> /\ Below(ParseInt10(Tail(g.url[1].path)), 0)
                     ELSE Below(g.database, 0)
            badScheme == hasUrl /\ g.url[1].scheme \notin {"redis", "rediss"}
            badTimeout == Below(g.connectTimeout, 0) \/ Below(g.commandTimeout, 0)
        IN (badPort \/ badDb \/ badScheme \/ badTimeout) => opts.out[1].tag = "error"
C24_Witness ==
    /\ opts.out # <<>>
    /\ opts.out[1].tag = "error"
    /\ opts.given[1].url # <<>>
    /\ opts.given[1].url[1] = [scheme |-> "redis", port |-> <<"0">>, path |-> <<"/", "2">>]
    /\ opts.given[1].port = <<1>>
    /\ opts.given[1].connectTimeout = <<>>
    /\ opts.given[1].commandTimeout = <<>>

C26_NestedAggregates ==
    /\ (label \in {"nested2", "nested3"} /\ input # <<>>) => Emitted = <<>>
    /\ (label = "nested2" /\ input = <<>>) =>
          /\ Emitted = <<ArrayNode(<<ArrayNode(<<SimpleString(<<"a">>)>>),
                                     MapNode(<<SimpleString(<<"k">>), IntegerNode(1)>>)>>)>>
          /\ errors = 0
    /\ (label = "nested3" /\ input = <<>>) =>
          /\ Emitted = <<ArrayNode(<<ArrayNode(<<ArrayNode(<<SimpleString(<<"a">>)>>)>>)>>)>>
          /\ errors = 0

\* C27: after any feed the frame stack holds at most one frame for each
\* aggregate header of the stream: a header whose children are still
\* missing is not parsed and pushed again by the next feed.
C27_NoHeaderPushedTwice ==
    errors = 0 =>
        Len(parser.frames) <=
            Cardinality({k \in 1..Len(whole) : whole[k] \in {"*", "%", "~", ">", "|"}})

\* C28: a command that is settled with a value or a server error by the
\* delivery of bytes from transport i was written on transport i.
C28_ReplyFromOwnConnection ==
    [][\A id \in Ids : \A i \in Calls :
          (/\ outcome[id].st = "pending"
           /\ outcome'[id].st \in {"value", "error"}
           /\ tstate' = tstate
           /\ Len(wire'[i]) < Len(wire[i])) => sentOn[id] = i]_vars

\* C29: the first time a chunk is handed to the socket, the bytes handed
\* over are the bytes encodeCommand produced for the command of that chunk,
\* however long the chunk waited in the write queue and whatever was
\* encoded meanwhile.
C29_QueuedBytesUnaltered ==
    \A k \in 1..Len(net.stream) :
        (\A j \in 1..(k - 1) : net.stream[j] # net.stream[k]) =>
            net.sent[k] = EncodeCommand(CommandOf(net.stream[k]))

\* C30: no chunk is handed to the socket twice.
C30_HandedOnce ==
    \A k \in 1..Len(net.stream) : \A j \in 1..Len(net.stream) :
        net.stream[j] = net.stream[k] => j = k

\* C31: the array `*2 |1 k v a b`, however it is split into chunks, is
\* delivered as one reply with exactly two children: a carrying the
\* attributes {k: v} and b carrying none.
C31_AttributesOnChild ==
    (label = "attrChild" /\ input = <<>>) =>
        /\ Emitted = <<ArrayNode(<<WithAttrs(SimpleString(<<"a">>),
                                             <<SimpleString(<<"k">>), SimpleString(<<"v">>)>>),
                                   SimpleString(<<"b">>)>>)>>
        /\ errors = 0

\* C38: the bytes `|0 +OK`, however they are split into chunks, are
\* delivered as exactly one reply, the simple string OK carrying an empty
\* attribute set.
C38_EmptyAttributes ==
    (label = "attrEmpty" /\ input = <<>>) =>
        /\ Emitted = <<WithAttrs(SimpleString(<<"O", "K">>), <<>>)>>
        /\ errors = 0

\* C32: once the session is torn down, by disconnect() or by the close of
\* its transport, no command timer is armed.
C32_NoTimerAfterTeardown ==
    state = "disconnected" => timers = {}

\* C33: on one connection, the delivery of one frame that fails a pending
\* command with a server error fails the command at the head of the FIFO,
\* the error is the reply to that command's own request, and every other
\* command keeps its outcome, its timer and its place in the FIFO.
C33_ServerErrorFailsOwnRequest ==
    [][\A id \in Ids :
          (/\ Len(callpc) = 1
           /\ tstate' = tstate
           /\ Len(wire'[1]) = Len(wire[1]) - 1
           /\ outcome[id].st = "pending"
           /\ outcome'[id].st = "error") =>
             /\ pending # <<>> /\ id = pending[1]
             /\ outcome'[id].got = IntToString(id)
             /\ pending' = Tail(pending)
             /\ timers' = timers \ {id}
             /\ \A j \in Ids \ {id} : outcome'[j] = outcome[j]]_vars

\* C34: bytes reach the session's decoder from the session's current
\* transport only, the one it writes to, and no other transport has its
\* socket open beside it.
C34_OneTransportFeeds ==
    [][\A i \in Calls :
          (tstate' = tstate /\ Len(wire'[i]) < Len(wire[i])) =>
             /\ i = cur
             /\ \A j \in Calls \ {i} : tstate[j] \notin {"connected", "closing"}]_vars

\* C35: with disconnect() completed (or no connect() made yet), the only
\* step that takes the session out of state disconnected is a new
\* connect() call.
C35_DisconnectedUntilConnect ==
    [][(state = "disconnected" /\ cur = 0 /\ discPending = 0 /\ state' # state) =>
          (Len(callpc') = Len(callpc) + 1 /\ state' = "connecting")]_vars

\* C36: a command is in the pending FIFO exactly when its promise is
\* unsettled and exactly when its timer is armed, so the number of pending
\* commands is the number of submitted commands not yet settled.
C36_PendingIffUnsettled ==
    /\ \A id \in Ids : InPending(pending, id) <=> (outcome[id].st = "pending")
    /\ \A id \in Ids : InPending(pending, id) <=> (id \in timers)
    /\ Len(pending) = Cardinality({id \in Ids : outcome[id].st = "pending"})
    /\ timers \subseteq Ids
C36_Witness ==
    /\ Len(outcome) = 2
    /\ outcome[1].st = "error"
    /\ outcome[2].st = "pending"
    /\ pending = <<2>>
    /\ timers = {2}

\* C40: the transport is in state connecting only while a connect attempt
\* is in flight, and a connect() call made after the last attempt failed
\* starts a new attempt.
C40_FailedAttemptLeavesConnecting ==
    /\ [](net.state = "connecting" => net.inflight)
    /\ [][(/\ Len(net.callers') > Len(net.callers)
           /\ net.attempts # <<>>
           /\ net.attempts[Len(net.attempts)] = "err") =>
              Len(net.attempts') = Len(net.attempts) + 1]_vars

\* C39: every change of the transport's state is one step forward along
\* disconnected, connecting, connected, closing, closed.
C39_TransportStateForward ==
    [][net.state' # net.state =>
          <<net.state, net.state'>> \in {<<"disconnected", "connecting">>,
                                         <<"connecting", "connected">>,
                                         <<"connected", "closing">>,
                                         <<"closing", "closed">>}]_vars

\* C37: a connect() call that has not settled yet was made at most
\* connectTimeout ago.
C37_ConnectWithinTimeout ==
    clock.pc \in {"tcp", "hs"} => clock.now <= clock.limit

====
